---- MODULE Spec2Model ----
(***************************************************************************)
(* Feedback ingestion and enrichment pipeline of the FeedbackAI server:    *)
(* the retry wrapper around the AI call, the fallback analysis, the two    *)
(* storage backends behind the useMongo flag, and the three REST handlers. *)
(*                                                                         *)
(* JSON objects are functions from the names of the fields that are        *)
(* present to their values; a field that is undefined is absent from the   *)
(* domain (JSON.stringify drops it).  JSON null is the value Null.         *)
(* helpfulResponse is "null" / "true" / "false".                           *)
(***************************************************************************)
EXTENDS Integers, Sequences, FiniteSets, TLC

(***************************************************************************)
(* Bounds of the model.                                                    *)
(***************************************************************************)
MaxReqs == 3        \* HTTP requests received in one process lifetime
MaxNow == 2         \* largest value of the millisecond clock
MaxInFlight == 1    \* POST handlers suspended at the same time

(***************************************************************************)
(* Program constants.                                                      *)
(***************************************************************************)
retries == 3
initialDelay == 1000

Null == [null |-> TRUE]
NoFields == [f \in {} |-> 0]

\* a power of two with the exponent one too large
Pow2OffByOne(n) == IF n = 0 THEN 2 ELSE IF n = 1 THEN 4 ELSE 8

Pow2(n) == IF n = 0 THEN 1 ELSE IF n = 1 THEN 2 ELSE IF n = 2 THEN 4 ELSE 8

(***************************************************************************)
(* Analysis values.                                                        *)
(***************************************************************************)
Fallback ==
  [userResponse |-> "Thank you for your feedback! We appreciate you taking the time to share your thoughts.",
   summary |-> "AI analysis unavailable at this moment.",
   recommendedActions |-> <<"Check API Quota/Connection", "Review logs manually">>,
   sentiment |-> "Neutral"]

AnalysisFields == {"userResponse", "summary", "recommendedActions", "sentiment"}

\* what the provider returns when it follows the response schema
GoodAnalysis ==
  [userResponse |-> "Glad you liked it", summary |-> "Happy customer",
   recommendedActions |-> <<"a1", "a2", "a3">>, sentiment |-> "Positive"]

\* a JSON object that lacks fields of the schema
PartialAnalysis == [summary |-> "only a summary"]

\* an analysis a client puts into the POST body
ClientAnalysis ==
  [userResponse |-> "client text", summary |-> "client summary",
   recommendedActions |-> <<"c1">>, sentiment |-> "Negative"]

\* JavaScript truthiness of a JSON value that is null or an object
Truthy(v) == v # Null

(***************************************************************************)
(* JSON.parse on response.text.                                            *)
(***************************************************************************)
ProviderTexts == {"", "not json", "null", "GOOD_JSON", "PARTIAL_JSON"}

ParseThrows(text) == text \in {"", "not json"}

JSONparse(text) ==
  CASE text = "null" -> Null
    [] text = "GOOD_JSON" -> GoodAnalysis
    [] text = "PARTIAL_JSON" -> PartialAnalysis
    [] OTHER -> Null

\* an assignment of body in place of the merge
SpreadReplace(old, body) == body

(***************************************************************************)
(* Object spread { ...old, ...body }.                                      *)
(***************************************************************************)
Spread(old, body) ==
  [f \in (DOMAIN old) \cup (DOMAIN body) |->
     IF f \in DOMAIN body THEN body[f] ELSE old[f]]

(***************************************************************************)
(* Request bodies and provider outcomes the environment can produce.       *)
(***************************************************************************)
PostBodies ==
  { [rating |-> 5, reviewText |-> "Great service!"],
    [rating |-> 1, reviewText |-> "Bad"],
    [reviewText |-> "no rating"],
    [rating |-> 4, reviewText |-> "ok", aiAnalysis |-> ClientAnalysis],
    [rating |-> 4, reviewText |-> "ok", aiAnalysis |-> PartialAnalysis] }

PatchBodies ==
  { [helpfulResponse |-> "true"],
    [helpfulResponse |-> "false"],
    [aiAnalysis |-> Null],
    [timestamp |-> 0],
    [id |-> 1] }

\* the id no submission ever gets
UnknownId == 0

\* errors thrown by genAI.models.generateContent: HTTP status and whether
\* error.message contains the text '429'
ProviderErrors ==
  { [status |-> 429, has429 |-> TRUE],
    [status |-> 503, has429 |-> FALSE],
    [status |-> 500, has429 |-> FALSE],
    [status |-> 400, has429 |-> TRUE] }

(***************************************************************************)
(* Array.prototype.sort((a, b) => b.timestamp - a.timestamp): stable,      *)
(* descending by timestamp.                                                *)
(***************************************************************************)
InsertDesc(r, s) ==
  LET k == Cardinality({j \in 1..Len(s) : s[j].timestamp >= r.timestamp})
  IN SubSeq(s, 1, k) \o <<r>> \o SubSeq(s, k + 1, Len(s))

\* a listing that leaves the array as it is
NoSort(s) == s

RECURSIVE SortDesc(_)
SortDesc(s) ==
  IF s = <<>> THEN <<>>
  ELSE InsertDesc(s[Len(s)], SortDesc(SubSeq(s, 1, Len(s) - 1)))

DescSorted(s) == \A j \in 1..(Len(s) - 1) : s[j].timestamp >= s[j + 1].timestamp

\* findIndex(f => f.id === id): first matching index, 0 when there is none
HasId(r, id) == "id" \in DOMAIN r /\ r.id = id

\* a findIndex whose miss (-1) is taken for the last index
FindIndexOrLast(s, id) ==
  IF \E j \in 1..Len(s) : HasId(s[j], id)
  THEN CHOOSE j \in 1..Len(s) :
         HasId(s[j], id) /\ \A k \in 1..(j - 1) : ~HasId(s[k], id)
  ELSE Len(s)

FindIndex(s, id) ==
  IF \E j \in 1..Len(s) : HasId(s[j], id)
  THEN CHOOSE j \in 1..Len(s) :
         HasId(s[j], id) /\ \A k \in 1..(j - 1) : ~HasId(s[k], id)
  ELSE 0

(***************************************************************************)
(* The document store behind the Feedback model.                           *)
(***************************************************************************)
SchemaFields == {"id", "rating", "reviewText", "timestamp", "aiAnalysis", "helpfulResponse"}

\* a document keeps the paths the schema declares
CastAnalysis(v) ==
  IF v = Null THEN Null ELSE [f \in (DOMAIN v) \cap AnalysisFields |-> v[f]]

Cast(obj) ==
  [f \in (DOMAIN obj) \cap SchemaFields |->
     IF f = "aiAnalysis" THEN CastAnalysis(obj[f]) ELSE obj[f]]

\* Feedback.find().sort({ timestamp: -1 }): every document, descending by
\* timestamp, documents of equal timestamp in an order the store picks
FindSorted(docs) ==
  LET n == Len(docs)
      perms == {p \in [1..n -> 1..n] : \A a, b \in 1..n : a # b => p[a] # p[b]}
  IN {s \in {[j \in 1..n |-> docs[p[j]]] : p \in perms} : DescSorted(s)}

\* { $set: body } on one document: the paths of the schema that body names
SetFields(doc, body) ==
  LET c == Cast(body)
  IN [f \in (DOMAIN doc) \cup (DOMAIN c) |-> IF f \in DOMAIN c THEN c[f] ELSE doc[f]]

\* Feedback.findOneAndUpdate({ id }, { $set: body }, { new: true }): the
\* first document with this id, updated, or null
FindOneAndUpdate(docs, id, body) ==
  LET j == FindIndex(docs, id)
  IN IF j = 0 THEN [docs |-> docs, result |-> Null]
     ELSE [docs |-> [docs EXCEPT ![j] = SetFields(@, body)],
           result |-> SetFields(docs[j], body)]

(***************************************************************************)
(* State of the server process.                                            *)
(*   genAI          the AI client exists (API_KEY was set)                 *)
(*   useMongo       the backend flag                                       *)
(*   connState      "none" (no MONGODB_URI), "pending", "connected",       *)
(*                  "failed": the promise of mongoose.connect              *)
(*   feedbackMemory the in-memory array                                    *)
(*   mongoDocs      the documents of the Feedback collection               *)
(*   now            the last value read from Date.now()                    *)
(*   nextId         the next value of uuidv4()                             *)
(*   tasks          the POST handlers suspended at an await                *)
(*   started        requests received so far                               *)
(*   last           the most recent HTTP response                          *)
(*   twin           the response of the other backend to the same request  *)
(*                  (only in the side-by-side run of the two backends)     *)
(*   acked          ids of the submissions answered with 201, in order     *)
(*   servedBy       the backends that have served a request                *)
(***************************************************************************)
VARIABLES genAI, useMongo, connState, feedbackMemory, mongoDocs, now, nextId,
          tasks, started, last, twin, acked, servedBy,
          userDashboard, adminDashboard

\* the state of the two browser components
clientVars == <<userDashboard, adminDashboard>>

vars == <<genAI, useMongo, connState, feedbackMemory, mongoDocs, now, nextId,
          tasks, started, last, twin, acked, servedBy, clientVars>>

BackendName(mongo) == IF mongo THEN "mongo" ELSE "memory"

NoResponse ==
  [op |-> "none", req |-> 0, status |-> 0, via |-> "none", body |-> NoFields,
   id |-> 0, rec |-> NoFields, list |-> <<>>, outcomes |-> <<>>, waited |-> 0,
   text |-> "none"]

\* UserDashboard, src/unnamed/part_001 lines 52-57: the useState values of a
\* component that was just mounted; votes are the updateSubmission calls it
\* has made, each with the point it has reached and whether its response
\* was ok
UserDashboardInit ==
  [submittedData |-> Null, helpfulStatus |-> "null", isSubmitting |-> FALSE,
   votes |-> <<>>]

\* AdminDashboard.tsx lines 9-16: the state and the refs of a component that
\* was just mounted; polls counts the fetchData calls that have finished,
\* stored and storedBefore are the numbers of submissions the server held at
\* the latest and at the previous of them, raised tells whether the latest
\* called setNotification
AdminDashboardInit ==
  [submissions |-> <<>>, notification |-> FALSE, isFirstLoad |-> TRUE,
   prevCount |-> 0, polls |-> 0, stored |-> 0, storedBefore |-> 0,
   raised |-> FALSE]

Init ==
  /\ genAI \in BOOLEAN
  /\ useMongo = FALSE
  /\ connState \in {"none", "pending"}
  /\ feedbackMemory = <<>>
  /\ mongoDocs = <<>>
  /\ now = 0
  /\ nextId = 1
  /\ tasks = {}
  /\ started = 0
  /\ last = NoResponse
  /\ twin = NoResponse
  /\ acked = <<>>
  /\ servedBy = {}
  /\ userDashboard = UserDashboardInit
  /\ adminDashboard = AdminDashboardInit

(***************************************************************************)
(* Startup connection: mongoose.connect(...).then / .catch                 *)
(***************************************************************************)
ConnectResolve ==
  /\ connState = "pending"
  /\ connState' = "connected"
  /\ useMongo' = TRUE
  /\ UNCHANGED <<clientVars, genAI, feedbackMemory, mongoDocs, now, nextId, tasks, started,
                 last, twin, acked, servedBy>>

\* a catch that switches to the database although the connection failed
ConnectRejectUsesMongo ==
  /\ connState = "pending"
  /\ connState' = "failed"
  /\ useMongo' = TRUE
  /\ UNCHANGED <<clientVars, genAI, feedbackMemory, mongoDocs, now, nextId, tasks,
                 started, last, twin, acked, servedBy>>

ConnectReject ==
  /\ connState = "pending"
  /\ connState' = "failed"
  /\ UNCHANGED <<clientVars, genAI, useMongo, feedbackMemory, mongoDocs, now, nextId, tasks,
                 started, last, twin, acked, servedBy>>

(***************************************************************************)
(* The bodies of the three handlers for one backend: the stores after the  *)
(* handler and the response it sends.  mongo is the value of useMongo the  *)
(* handler read, dbOk whether the database call succeeds.                  *)
(***************************************************************************)

\* GET /api/feedback: the possible results
GetOn(mongo, mem, docs, dbOk) ==
  LET resp == [NoResponse EXCEPT !.op = "GET", !.via = BackendName(mongo)]
  IN IF mongo
     THEN IF dbOk
          THEN {[mem |-> mem, docs |-> docs,
                 resp |-> [resp EXCEPT !.status = 200, !.list = found]] :
                  found \in FindSorted(docs)}
          ELSE {[mem |-> mem, docs |-> docs, resp |-> [resp EXCEPT !.status = 500]]}
     ELSE {[mem |-> SortDesc(mem), docs |-> docs,
            resp |-> [resp EXCEPT !.status = 200, !.list = SortDesc(mem)]]}

\* POST /api/feedback, lines 190-201: store newSubmission
InsertOn(mongo, mem, docs, newSubmission, dbOk) ==
  LET resp == [NoResponse EXCEPT !.op = "POST", !.via = BackendName(mongo)]
  IN IF mongo
     THEN IF dbOk
          THEN [mem |-> mem, docs |-> Append(docs, Cast(newSubmission)),
                resp |-> [resp EXCEPT !.status = 201, !.rec = Cast(newSubmission)]]
          ELSE [mem |-> mem, docs |-> docs, resp |-> [resp EXCEPT !.status = 400]]
     ELSE [mem |-> Append(mem, newSubmission), docs |-> docs,
           resp |-> [resp EXCEPT !.status = 201, !.rec = newSubmission]]

\* PATCH /api/feedback/:id
PatchOn(mongo, mem, docs, id, body, dbOk) ==
  LET resp == [NoResponse EXCEPT !.op = "PATCH", !.via = BackendName(mongo),
                 !.body = body, !.id = id]
  IN IF mongo
     THEN IF dbOk
          THEN LET upd == FindOneAndUpdate(docs, id, body)
               IN [mem |-> mem, docs |-> upd.docs,
                   resp |-> [resp EXCEPT !.status = 200, !.rec = upd.result]]
          ELSE [mem |-> mem, docs |-> docs, resp |-> [resp EXCEPT !.status = 400]]
     ELSE LET index == FindIndex(mem, id)
          IN IF index # 0
             THEN [mem |-> [mem EXCEPT ![index] = Spread(@, body)], docs |-> docs,
                   resp |-> [resp EXCEPT !.status = 200,
                               !.rec = Spread(mem[index], body)]]
             ELSE [mem |-> mem, docs |-> docs, resp |-> [resp EXCEPT !.status = 404]]

(***************************************************************************)
(* GET /api/feedback                                                       *)
(***************************************************************************)
Get(dbOk) ==
  /\ useMongo \/ dbOk
  /\ started' = started + 1
  /\ servedBy' = servedBy \cup {BackendName(useMongo)}
  /\ \E r \in GetOn(useMongo, feedbackMemory, mongoDocs, dbOk) :
       /\ feedbackMemory' = r.mem
       /\ mongoDocs' = r.docs
       /\ last' = [r.resp EXCEPT !.req = started + 1]
  /\ UNCHANGED <<clientVars, genAI, useMongo, connState, now, nextId, tasks, twin, acked>>

(***************************************************************************)
(* POST /api/feedback                                                      *)
(***************************************************************************)
\* lines 181-188; a rating or reviewText the body lacks is undefined; the
\* variant before it is the record a handler trusting the client would build
\* a newSubmission that takes the timestamp of the request body when it has one
NewSubmissionClientTime(body, aiAnalysis, id, timestamp) ==
  [f \in {"id", "timestamp", "aiAnalysis", "helpfulResponse"} \cup
          ((DOMAIN body) \cap {"rating", "reviewText"}) |->
     CASE f = "id" -> id
       [] f = "timestamp" ->
            IF "timestamp" \in DOMAIN body THEN body.timestamp ELSE timestamp
       [] f = "aiAnalysis" -> aiAnalysis
       [] f = "helpfulResponse" -> "null"
       [] OTHER -> body[f]]

NewSubmission(body, aiAnalysis, id, timestamp) ==
  [f \in {"id", "timestamp", "aiAnalysis", "helpfulResponse"} \cup
          ((DOMAIN body) \cap {"rating", "reviewText"}) |->
     CASE f = "id" -> id
       [] f = "timestamp" -> timestamp
       [] f = "aiAnalysis" -> aiAnalysis
       [] f = "helpfulResponse" -> "null"
       [] OTHER -> body[f]]

\* the response of a POST handler t
PostResponse(t, resp) ==
  [resp EXCEPT !.req = t.req, !.body = t.body, !.outcomes = t.outcomes,
               !.waited = t.waited, !.text = t.text]

\* a persist step that puts the record in front (unshift) instead of push
PersistUnshift(t, aiAnalysis, others) ==
  \E time \in {now, IF now < MaxNow THEN now + 1 ELSE now} :
    LET newSubmission == NewSubmission(t.body, aiAnalysis, nextId, time)
    IN /\ now' = time
       /\ nextId' = nextId + 1
       /\ servedBy' = servedBy \cup {BackendName(useMongo)}
       /\ IF useMongo
          THEN /\ tasks' = others \cup
                    {[t EXCEPT !.pc = "saving", !.doc = newSubmission]}
               /\ UNCHANGED <<feedbackMemory, last, acked>>
          ELSE LET r == InsertOn(FALSE, feedbackMemory, mongoDocs, newSubmission, TRUE)
               IN /\ feedbackMemory' = <<newSubmission>> \o feedbackMemory
                  /\ tasks' = others
                  /\ last' = PostResponse(t, r.resp)
                  /\ acked' = Append(acked, newSubmission.id)
       /\ UNCHANGED mongoDocs

\* lines 181-197: build newSubmission with the time Date.now() returns, then
\* store it through the backend the flag names now; t is the handler, others
\* the other suspended handlers
Persist(t, aiAnalysis, others) ==
  \E time \in {now, IF now < MaxNow THEN now + 1 ELSE now} :
    LET newSubmission == NewSubmission(t.body, aiAnalysis, nextId, time)
    IN /\ now' = time
       /\ nextId' = nextId + 1
       /\ servedBy' = servedBy \cup {BackendName(useMongo)}
       /\ IF useMongo
          THEN /\ tasks' = others \cup
                    {[t EXCEPT !.pc = "saving", !.doc = newSubmission]}
               /\ UNCHANGED <<feedbackMemory, last, acked>>
          ELSE LET r == InsertOn(FALSE, feedbackMemory, mongoDocs, newSubmission, TRUE)
               IN /\ feedbackMemory' = r.mem
                  /\ tasks' = others
                  /\ last' = PostResponse(t, r.resp)
                  /\ acked' = Append(acked, newSubmission.id)
       /\ UNCHANGED mongoDocs

NewTask(body) ==
  [req |-> started + 1, body |-> body, pc |-> "calling", i |-> 0,
   outcomes |-> <<>>, waited |-> 0, text |-> "none", doc |-> NoFields]

\* an assignment of response.text as it is, without JSON.parse
AnalysisFromTextUnparsed(text) ==
  IF text = "" THEN Null ELSE [raw |-> text]

\* lines 160-168: aiAnalysis after the try block, for a provider response
\* with this text; Null stands for an aiAnalysis left undefined or null
AnalysisFromText(text) ==
  IF text = "" THEN Null
  ELSE IF ParseThrows(text) THEN Null
  ELSE JSONparse(text)

\* the enrichment without the fallback block
OrFallbackMissing(aiAnalysis) == aiAnalysis

\* lines 170-178: if (!aiAnalysis) aiAnalysis = { the fallback }
OrFallback(aiAnalysis) == IF Truthy(aiAnalysis) THEN aiAnalysis ELSE Fallback

\* a backoff that does not grow
ConstantDelay(i) == initialDelay

\* line 111: initialDelay * Math.pow(2, i)
BackoffDelay(i) == initialDelay * Pow2(i)

\* a handler that calls the provider whether or not a client was configured
PostReceiveNoKeyCheck(body) ==
  /\ started' = started + 1
  /\ IF "aiAnalysis" \in DOMAIN body /\ Truthy(body.aiAnalysis)
     THEN /\ useMongo => Cardinality(tasks) < MaxInFlight
          /\ Persist(NewTask(body), body.aiAnalysis, tasks)
     ELSE /\ Cardinality(tasks) < MaxInFlight
          /\ tasks' = tasks \cup {NewTask(body)}
          /\ UNCHANGED <<feedbackMemory, mongoDocs, now, nextId, last, acked, servedBy>>
  /\ UNCHANGED <<clientVars, genAI, useMongo, connState, twin>>

\* the handler runs until its first await
PostReceive(body) ==
  /\ started' = started + 1
  /\ IF "aiAnalysis" \in DOMAIN body /\ Truthy(body.aiAnalysis)
     THEN /\ useMongo => Cardinality(tasks) < MaxInFlight
          /\ Persist(NewTask(body), body.aiAnalysis, tasks)
     ELSE IF ~genAI
     THEN /\ useMongo => Cardinality(tasks) < MaxInFlight
          /\ Persist(NewTask(body), OrFallback(Null), tasks)
     ELSE /\ Cardinality(tasks) < MaxInFlight
          /\ tasks' = tasks \cup {NewTask(body)}
          /\ UNCHANGED <<feedbackMemory, mongoDocs, now, nextId, last, acked, servedBy>>
  /\ UNCHANGED <<clientVars, genAI, useMongo, connState, twin>>

\* a loop that does not return the response of a call that is not the last
ProviderResolveGoesOn(t, text) ==
  /\ t \in tasks
  /\ t.pc = "calling"
  /\ LET u == [t EXCEPT !.outcomes = Append(@, 200), !.text = text]
     IN IF t.i < retries - 1
        THEN /\ tasks' = (tasks \ {t}) \cup {[u EXCEPT !.i = @ + 1]}
             /\ UNCHANGED <<feedbackMemory, mongoDocs, now, nextId, last, acked,
                            servedBy>>
        ELSE Persist(u, OrFallback(AnalysisFromText(text)), tasks \ {t})
  /\ UNCHANGED <<clientVars, genAI, useMongo, connState, started, twin>>

\* genAI.models.generateContent resolves with a response whose text is text
ProviderResolve(t, text) ==
  /\ t \in tasks
  /\ t.pc = "calling"
  /\ Persist([t EXCEPT !.outcomes = Append(@, 200), !.text = text],
             OrFallback(AnalysisFromText(text)), tasks \ {t})
  /\ UNCHANGED <<clientVars, genAI, useMongo, connState, started, twin>>

IsTransient(error) == error.status = 429 \/ error.status = 503 \/ error.has429

\* a catch branch whose final throw escapes the handler: no fallback, no
\* record and no response
ProviderRejectEscapes(t, error) ==
  /\ t \in tasks
  /\ t.pc = "calling"
  /\ LET u == [t EXCEPT !.outcomes = Append(@, error.status)]
     IN IF IsTransient(error) /\ t.i < retries - 1
        THEN /\ tasks' = (tasks \ {t}) \cup
                  {[u EXCEPT !.pc = "backoff",
                             !.waited = @ + BackoffDelay(t.i)]}
             /\ UNCHANGED <<feedbackMemory, mongoDocs, now, nextId, last, acked,
                            servedBy>>
        ELSE IF t.i = retries - 1
        THEN /\ tasks' = (tasks \ {t}) \cup {[u EXCEPT !.pc = "thrown"]}
             /\ UNCHANGED <<feedbackMemory, mongoDocs, now, nextId, last, acked,
                            servedBy>>
        ELSE /\ tasks' = (tasks \ {t}) \cup {[u EXCEPT !.i = @ + 1]}
             /\ UNCHANGED <<feedbackMemory, mongoDocs, now, nextId, last, acked,
                            servedBy>>
  /\ UNCHANGED <<clientVars, genAI, useMongo, connState, started, twin>>

\* genAI.models.generateContent rejects with error: the catch branch
ProviderReject(t, error) ==
  /\ t \in tasks
  /\ t.pc = "calling"
  /\ LET u == [t EXCEPT !.outcomes = Append(@, error.status)]
     IN IF IsTransient(error) /\ t.i < retries - 1
        THEN /\ tasks' = (tasks \ {t}) \cup
                  {[u EXCEPT !.pc = "backoff",
                             !.waited = @ + BackoffDelay(t.i)]}
             /\ UNCHANGED <<feedbackMemory, mongoDocs, now, nextId, last, acked,
                            servedBy>>
        ELSE IF t.i = retries - 1
        THEN Persist(u, OrFallback(Null), tasks \ {t})
        ELSE /\ tasks' = (tasks \ {t}) \cup {[u EXCEPT !.i = @ + 1]}
             /\ UNCHANGED <<feedbackMemory, mongoDocs, now, nextId, last, acked,
                            servedBy>>
  /\ UNCHANGED <<clientVars, genAI, useMongo, connState, started, twin>>

\* the setTimeout of the backoff fires; the loop goes to its next iteration
BackoffElapsed(t) ==
  /\ t \in tasks
  /\ t.pc = "backoff"
  /\ tasks' = (tasks \ {t}) \cup {[t EXCEPT !.pc = "calling", !.i = @ + 1]}
  /\ now' = IF now < MaxNow THEN now + 1 ELSE now
  /\ UNCHANGED <<clientVars, genAI, useMongo, connState, feedbackMemory, mongoDocs, nextId,
                 started, last, twin, acked, servedBy>>

\* a catch block that keeps the submission in the array when the save rejects
SaveReturnKeepsFailed(t, dbOk) ==
  /\ t \in tasks
  /\ t.pc = "saving"
  /\ tasks' = tasks \ {t}
  /\ LET r == InsertOn(TRUE, feedbackMemory, mongoDocs, t.doc, dbOk)
     IN /\ mongoDocs' = r.docs
        /\ feedbackMemory' = IF dbOk THEN feedbackMemory
                                      ELSE Append(feedbackMemory, t.doc)
        /\ last' = PostResponse(t, r.resp)
        /\ acked' = IF dbOk THEN Append(acked, t.doc.id) ELSE acked
  /\ UNCHANGED <<clientVars, genAI, useMongo, connState, now, nextId,
                 started, twin, servedBy>>

\* await newFeedback.save() settles
SaveReturn(t, dbOk) ==
  /\ t \in tasks
  /\ t.pc = "saving"
  /\ tasks' = tasks \ {t}
  /\ LET r == InsertOn(TRUE, feedbackMemory, mongoDocs, t.doc, dbOk)
     IN /\ mongoDocs' = r.docs
        /\ last' = PostResponse(t, r.resp)
        /\ acked' = IF dbOk THEN Append(acked, t.doc.id) ELSE acked
  /\ UNCHANGED <<clientVars, genAI, useMongo, connState, feedbackMemory, now, nextId,
                 started, twin, servedBy>>

(***************************************************************************)
(* PATCH /api/feedback/:id                                                 *)
(***************************************************************************)
\* a PATCH handler whose in-memory branch has no else: nothing is sent when
\* the id is not found
PatchSilentOnMiss(id, body, dbOk) ==
  /\ useMongo \/ dbOk
  /\ started' = started + 1
  /\ servedBy' = servedBy \cup {BackendName(useMongo)}
  /\ LET r == PatchOn(useMongo, feedbackMemory, mongoDocs, id, body, dbOk)
     IN /\ feedbackMemory' = r.mem
        /\ mongoDocs' = r.docs
        /\ last' = IF r.resp.status = 404 THEN last
                   ELSE [r.resp EXCEPT !.req = started + 1]
  /\ UNCHANGED <<clientVars, genAI, useMongo, connState, now, nextId, tasks, twin, acked>>

Patch(id, body, dbOk) ==
  /\ useMongo \/ dbOk
  /\ started' = started + 1
  /\ servedBy' = servedBy \cup {BackendName(useMongo)}
  /\ LET r == PatchOn(useMongo, feedbackMemory, mongoDocs, id, body, dbOk)
     IN /\ feedbackMemory' = r.mem
        /\ mongoDocs' = r.docs
        /\ last' = [r.resp EXCEPT !.req = started + 1]
  /\ UNCHANGED <<clientVars, genAI, useMongo, connState, now, nextId, tasks, twin, acked>>

Next ==
  \/ ConnectResolve
  \/ ConnectReject
  \/ \E dbOk \in BOOLEAN : started < MaxReqs /\ Get(dbOk)
  \/ \E body \in PostBodies : started < MaxReqs /\ PostReceive(body)
  \/ \E t \in tasks, text \in ProviderTexts : ProviderResolve(t, text)
  \/ \E t \in tasks, error \in ProviderErrors : ProviderReject(t, error)
  \/ \E t \in tasks : BackoffElapsed(t)
  \/ \E t \in tasks, dbOk \in BOOLEAN : SaveReturn(t, dbOk)
  \/ \E id \in 0..(nextId - 1), body \in PatchBodies, dbOk \in BOOLEAN :
       started < MaxReqs /\ Patch(id, body, dbOk)

Spec == Init /\ [][Next]_vars

(***************************************************************************)
(* The enrichment path alone: POST requests, the provider, the backoff     *)
(* timer, the startup connection and the database save; the requests come  *)
(* one after the other.                                                    *)
(***************************************************************************)
MaxPosts == 1       \* POST requests in a run of the enrichment path

RetryBodies ==
  { [rating |-> 5, reviewText |-> "Great service!"],
    [reviewText |-> "no rating"],
    [rating |-> 4, reviewText |-> "ok", aiAnalysis |-> ClientAnalysis] }

NextRetry ==
  \/ ConnectResolve
  \/ ConnectReject
  \/ \E body \in RetryBodies :
       started < MaxPosts /\ tasks = {} /\ PostReceive(body)
  \/ \E t \in tasks, text \in ProviderTexts : ProviderResolve(t, text)
  \/ \E t \in tasks, error \in ProviderErrors : ProviderReject(t, error)
  \/ \E t \in tasks : BackoffElapsed(t)
  \/ \E t \in tasks, dbOk \in BOOLEAN : SaveReturn(t, dbOk)

SpecRetry == Init /\ [][NextRetry]_vars

(***************************************************************************)
(* The store path: the three handlers against both backends, with a        *)
(* provider that answers at once.                                          *)
(***************************************************************************)
StoreTexts == {"GOOD_JSON"}

StoreBodies ==
  { [rating |-> 5, reviewText |-> "Great service!"],
    [rating |-> 4, reviewText |-> "ok", aiAnalysis |-> PartialAnalysis] }

StorePatches ==
  { [helpfulResponse |-> "true"],
    [aiAnalysis |-> Null],
    [timestamp |-> 0],
    [id |-> 1] }

NextStore ==
  \/ ConnectResolve
  \/ ConnectReject
  \/ \E dbOk \in BOOLEAN : started < MaxReqs /\ Get(dbOk)
  \/ \E body \in StoreBodies : started < MaxReqs /\ PostReceive(body)
  \/ \E t \in tasks, text \in StoreTexts : ProviderResolve(t, text)
  \/ \E t \in tasks, dbOk \in BOOLEAN : SaveReturn(t, dbOk)
  \/ \E id \in 0..(nextId - 1), body \in StorePatches, dbOk \in BOOLEAN :
       started < MaxReqs /\ Patch(id, body, dbOk)

SpecStore == Init /\ [][NextStore]_vars

(***************************************************************************)
(* The listing path: submissions of one body, listings, and patches that   *)
(* move a timestamp, over a longer run.                                    *)
(***************************************************************************)
MaxListReqs == 4    \* HTTP requests in a run of the listing path

ListBodies == { [rating |-> 5, reviewText |-> "Great service!"] }

ListPatches == { [timestamp |-> 0] }

NextList ==
  \/ ConnectResolve
  \/ ConnectReject
  \/ \E dbOk \in BOOLEAN : started < MaxListReqs /\ Get(dbOk)
  \/ \E body \in ListBodies : started < MaxListReqs /\ PostReceive(body)
  \/ \E t \in tasks, text \in StoreTexts : ProviderResolve(t, text)
  \/ \E t \in tasks, dbOk \in BOOLEAN : SaveReturn(t, dbOk)
  \/ \E id \in 0..(nextId - 1), body \in ListPatches, dbOk \in BOOLEAN :
       started < MaxListReqs /\ Patch(id, body, dbOk)

SpecList == Init /\ [][NextList]_vars

(***************************************************************************)
(* The two backends side by side: every request is given to the in-memory  *)
(* branch and to the durable branch of its handler, each on its own store; *)
(* last is the in-memory answer, twin the durable one.  The database works *)
(* and the AI client is disabled.                                          *)
(***************************************************************************)
TwinInit == Init /\ ~genAI /\ connState = "none"

TwinInsert(body) ==
  \E time \in {now, IF now < MaxNow THEN now + 1 ELSE now} :
    LET aiAnalysis == OrFallback(IF "aiAnalysis" \in DOMAIN body
                                 THEN body.aiAnalysis ELSE Null)
        newSubmission == NewSubmission(body, aiAnalysis, nextId, time)
        m == InsertOn(FALSE, feedbackMemory, mongoDocs, newSubmission, TRUE)
        d == InsertOn(TRUE, feedbackMemory, mongoDocs, newSubmission, TRUE)
    IN /\ started' = started + 1
       /\ now' = time
       /\ nextId' = nextId + 1
       /\ feedbackMemory' = m.mem
       /\ mongoDocs' = d.docs
       /\ last' = [m.resp EXCEPT !.req = started + 1, !.body = body]
       /\ twin' = [d.resp EXCEPT !.req = started + 1, !.body = body]
       /\ UNCHANGED <<clientVars, genAI, useMongo, connState, tasks, acked, servedBy>>

TwinList ==
  \E m \in GetOn(FALSE, feedbackMemory, mongoDocs, TRUE),
     d \in GetOn(TRUE, feedbackMemory, mongoDocs, TRUE) :
    /\ started' = started + 1
    /\ feedbackMemory' = m.mem
    /\ mongoDocs' = d.docs
    /\ last' = [m.resp EXCEPT !.req = started + 1]
    /\ twin' = [d.resp EXCEPT !.req = started + 1]
    /\ UNCHANGED <<clientVars, genAI, useMongo, connState, now, nextId, tasks, acked, servedBy>>

TwinPatch(id, body) ==
  LET m == PatchOn(FALSE, feedbackMemory, mongoDocs, id, body, TRUE)
      d == PatchOn(TRUE, feedbackMemory, mongoDocs, id, body, TRUE)
  IN /\ started' = started + 1
     /\ feedbackMemory' = m.mem
     /\ mongoDocs' = d.docs
     /\ last' = [m.resp EXCEPT !.req = started + 1]
     /\ twin' = [d.resp EXCEPT !.req = started + 1]
     /\ UNCHANGED <<clientVars, genAI, useMongo, connState, now, nextId, tasks, acked, servedBy>>

NextTwin ==
  \/ \E body \in StoreBodies : started < MaxReqs /\ TwinInsert(body)
  \/ started < MaxReqs /\ TwinList
  \/ \E id \in 0..(nextId - 1), body \in StorePatches :
       started < MaxReqs /\ TwinPatch(id, body)

SpecTwin == TwinInit /\ [][NextTwin]_vars

(***************************************************************************)
(* Overlapping submissions: POST requests that arrive while an earlier     *)
(* handler is suspended in its provider call, its backoff or its save.     *)
(* One body brings its own analysis and the fields a client may not set.   *)
(***************************************************************************)
MaxConcPosts == 2   \* POST requests in a run of overlapping submissions

ConcBodies ==
  { [rating |-> 5, reviewText |-> "Great service!"],
    [rating |-> 4, reviewText |-> "ok", aiAnalysis |-> ClientAnalysis,
     id |-> 0, timestamp |-> 9999, helpfulResponse |-> "true"] }

ConcTexts == {"GOOD_JSON"}

ConcErrors == { [status |-> 429, has429 |-> TRUE] }

NextConc ==
  \/ ConnectResolve
  \/ ConnectReject
  \/ \E body \in ConcBodies : started < MaxConcPosts /\ PostReceive(body)
  \/ \E t \in tasks, text \in ConcTexts : ProviderResolve(t, text)
  \/ \E t \in tasks, error \in ConcErrors : ProviderReject(t, error)
  \/ \E t \in tasks : BackoffElapsed(t)
  \/ \E t \in tasks, dbOk \in BOOLEAN : SaveReturn(t, dbOk)

SpecConc == Init /\ [][NextConc]_vars

(***************************************************************************)
(* The enrichment path with its scheduling: a provider call that is        *)
(* pending settles, a backoff timer that is armed fires, and a save that   *)
(* is pending completes and succeeds.  The event loop runs each of these   *)
(* callbacks once its promise settles, hence the weak fairness.            *)
(***************************************************************************)
LiveBodies ==
  { [rating |-> 5, reviewText |-> "Great service!"],
    [rating |-> 4, reviewText |-> "ok", aiAnalysis |-> ClientAnalysis] }

LiveTexts == {"GOOD_JSON", "not json"}

LiveErrors ==
  { [status |-> 429, has429 |-> TRUE], [status |-> 500, has429 |-> FALSE] }

ProviderSettles ==
  \/ \E t \in tasks, text \in LiveTexts : ProviderResolve(t, text)
  \/ \E t \in tasks, error \in LiveErrors : ProviderReject(t, error)

TimerFires == \E t \in tasks : BackoffElapsed(t)

SaveCompletes == \E t \in tasks : SaveReturn(t, TRUE)

NextLive ==
  \/ ConnectResolve
  \/ ConnectReject
  \/ \E body \in LiveBodies :
       started < MaxPosts /\ tasks = {} /\ PostReceive(body)
  \/ ProviderSettles
  \/ TimerFires
  \/ SaveCompletes

SpecLive ==
  /\ Init
  /\ [][NextLive]_vars
  /\ WF_vars(ProviderSettles)
  /\ WF_vars(TimerFires)
  /\ WF_vars(SaveCompletes)

(***************************************************************************)
(* UserDashboard (src/unnamed/part_001) against the server: one review is  *)
(* submitted through the form, then the Yes and No buttons are clicked.    *)
(***************************************************************************)
MaxClicks == 2      \* clicks on the Yes and No buttons

FormBody == [rating |-> 5, reviewText |-> "Great service!"]

\* response.ok of fetch
ResponseOk(status) == status \in 200..299

\* handleSubmit, lines 59-75, up to the await: the form has a rating and a
\* review, so neither alert returns early
HandleSubmit ==
  /\ userDashboard.submittedData = Null
  /\ ~userDashboard.isSubmitting
  /\ started = 0
  /\ userDashboard' = [userDashboard EXCEPT !.isSubmitting = TRUE]
  /\ UNCHANGED <<genAI, useMongo, connState, feedbackMemory, mongoDocs, now,
                 nextId, tasks, started, last, twin, acked, servedBy,
                 adminDashboard>>

\* the request of saveSubmission reaches the server
FormReceive ==
  /\ userDashboard.isSubmitting
  /\ started = 0
  /\ PostReceive(FormBody)

\* handleSubmit, lines 75-88, after the await: saveSubmission returns the
\* record or throws when the response is not ok
SubmitSettles ==
  /\ userDashboard.isSubmitting
  /\ last.op = "POST"
  /\ userDashboard' =
       IF ResponseOk(last.status)
       THEN [userDashboard EXCEPT !.submittedData = last.rec,
                                  !.helpfulStatus = "null",
                                  !.isSubmitting = FALSE]
       ELSE [userDashboard EXCEPT !.isSubmitting = FALSE]
  /\ UNCHANGED <<genAI, useMongo, connState, feedbackMemory, mongoDocs, now,
                 nextId, tasks, started, last, twin, acked, servedBy,
                 adminDashboard>>

\* a click on Yes (isHelpful) or No: the button is rendered once
\* submittedData is set and is disabled when helpfulStatus !== null (lines
\* 137-162); handleHelpfulFeedback runs up to its await (lines 91-95)
VoteClick(isHelpful) ==
  /\ userDashboard.submittedData # Null
  /\ userDashboard.helpfulStatus = "null"
  /\ userDashboard' =
       [userDashboard EXCEPT !.votes =
          Append(@, [isHelpful |-> isHelpful, pc |-> "sent", ok |-> FALSE])]
  /\ UNCHANGED <<genAI, useMongo, connState, feedbackMemory, mongoDocs, now,
                 nextId, tasks, started, last, twin, acked, servedBy,
                 adminDashboard>>

\* the PATCH of vote k is handled by the server (the body of Patch) and its
\* response reaches the fetch of updateSubmission
VoteServed(k, dbOk) ==
  /\ k \in 1..Len(userDashboard.votes)
  /\ userDashboard.votes[k].pc = "sent"
  /\ useMongo \/ dbOk
  /\ started' = started + 1
  /\ servedBy' = servedBy \cup {BackendName(useMongo)}
  /\ LET body == [helpfulResponse |->
                    IF userDashboard.votes[k].isHelpful THEN "true" ELSE "false"]
         r == PatchOn(useMongo, feedbackMemory, mongoDocs,
                      userDashboard.submittedData.id, body, dbOk)
     IN /\ feedbackMemory' = r.mem
        /\ mongoDocs' = r.docs
        /\ last' = [r.resp EXCEPT !.req = started + 1]
        /\ userDashboard' =
             [userDashboard EXCEPT !.votes[k].pc = "answered",
                                   !.votes[k].ok = ResponseOk(r.resp.status)]
  /\ UNCHANGED <<genAI, useMongo, connState, now, nextId, tasks, twin, acked,
                 adminDashboard>>

\* handleHelpfulFeedback after its await, lines 95-99: updateSubmission
\* throws when the response is not ok, and the catch only logs
VoteSettles(k) ==
  /\ k \in 1..Len(userDashboard.votes)
  /\ userDashboard.votes[k].pc = "answered"
  /\ userDashboard' =
       [userDashboard EXCEPT
          !.votes[k].pc = "done",
          !.helpfulStatus =
             IF userDashboard.votes[k].ok
             THEN (IF userDashboard.votes[k].isHelpful THEN "yes" ELSE "no")
             ELSE @]
  /\ UNCHANGED <<genAI, useMongo, connState, feedbackMemory, mongoDocs, now,
                 nextId, tasks, started, last, twin, acked, servedBy,
                 adminDashboard>>

NextVote ==
  \/ ConnectResolve
  \/ ConnectReject
  \/ HandleSubmit
  \/ FormReceive
  \/ \E t \in tasks, text \in StoreTexts : ProviderResolve(t, text)
  \/ \E t \in tasks, dbOk \in BOOLEAN : SaveReturn(t, dbOk)
  \/ SubmitSettles
  \/ \E isHelpful \in BOOLEAN :
       Len(userDashboard.votes) < MaxClicks /\ VoteClick(isHelpful)
  \/ \E k \in 1..Len(userDashboard.votes), dbOk \in BOOLEAN : VoteServed(k, dbOk)
  \/ \E k \in 1..Len(userDashboard.votes) : VoteSettles(k)

SpecVote == Init /\ [][NextVote]_vars

(***************************************************************************)
(* Every path of the three handlers, with its scheduling: listings,        *)
(* submissions and patches on both backends, a provider that answers,      *)
(* or is busy, and database calls that succeed or reject; one submission   *)
(* is enriched at a time.  A pending provider call settles, an armed       *)
(* timer fires and a pending save settles.                                 *)
(***************************************************************************)
MaxPathReqs == 3    \* HTTP requests in a run over every path

PathBodies == { [rating |-> 5, reviewText |-> "Great service!"] }

PathPatches == { [helpfulResponse |-> "true"] }

PathErrors == { [status |-> 429, has429 |-> TRUE] }

PathProviderSettles ==
  \/ \E t \in tasks, text \in StoreTexts : ProviderResolve(t, text)
  \/ \E t \in tasks, error \in PathErrors : ProviderReject(t, error)

PathSaveSettles == \E t \in tasks, dbOk \in BOOLEAN : SaveReturn(t, dbOk)

NextPaths ==
  \/ ConnectResolve
  \/ ConnectReject
  \/ \E dbOk \in BOOLEAN : started < MaxPathReqs /\ Get(dbOk)
  \/ \E body \in PathBodies :
       started < MaxPathReqs /\ tasks = {} /\ PostReceive(body)
  \/ PathProviderSettles
  \/ TimerFires
  \/ PathSaveSettles
  \/ \E id \in 0..(nextId - 1), body \in PathPatches, dbOk \in BOOLEAN :
       started < MaxPathReqs /\ Patch(id, body, dbOk)

SpecPaths ==
  /\ Init
  /\ [][NextPaths]_vars
  /\ WF_vars(PathProviderSettles)
  /\ WF_vars(TimerFires)
  /\ WF_vars(PathSaveSettles)

(***************************************************************************)
(* AdminDashboard (src/Task2/components/AdminDashboard.tsx) against the    *)
(* server: the dashboard polls the list while reviews are submitted.  One  *)
(* fetchData call runs at a time.                                          *)
(***************************************************************************)
MaxPolls == 3       \* fetchData calls of the admin dashboard
MaxAdminPosts == 1  \* POST requests while the admin dashboard polls

\* getSubmissions, storageService.ts lines 48-60: the list of a response
\* that is ok; an empty array when the fetch rejects or the response is not
AsSubmissions(netOk, resp) ==
  IF netOk /\ ResponseOk(resp.status) THEN resp.list ELSE <<>>

\* fetchData, lines 26-48, with the GET handler of the server when the
\* request reaches it (netOk)
FetchData(dbOk, netOk) ==
  /\ useMongo \/ dbOk
  /\ \E r \in GetOn(useMongo, feedbackMemory, mongoDocs, dbOk) :
       LET data == SortDesc(AsSubmissions(netOk, r.resp))
           raise == ~adminDashboard.isFirstLoad
                      /\ Len(data) > adminDashboard.prevCount
       IN /\ IF netOk
             THEN /\ started' = started + 1
                  /\ servedBy' = servedBy \cup {BackendName(useMongo)}
                  /\ feedbackMemory' = r.mem
                  /\ mongoDocs' = r.docs
                  /\ last' = [r.resp EXCEPT !.req = started + 1]
             ELSE UNCHANGED <<started, servedBy, feedbackMemory, mongoDocs, last>>
          /\ adminDashboard' =
               [adminDashboard EXCEPT
                  !.isFirstLoad = FALSE,
                  !.notification = IF raise THEN TRUE ELSE @,
                  !.prevCount = Len(data),
                  !.submissions = data,
                  !.polls = @ + 1,
                  !.storedBefore = adminDashboard.stored,
                  !.stored = Len(IF useMongo THEN mongoDocs ELSE feedbackMemory),
                  !.raised = raise]
  /\ UNCHANGED <<genAI, useMongo, connState, now, nextId, tasks, twin, acked,
                 userDashboard>>

\* line 38: setTimeout(() => setNotification(null), 4000) fires
NotificationTimeout ==
  /\ adminDashboard.notification
  /\ adminDashboard' = [adminDashboard EXCEPT !.notification = FALSE]
  /\ UNCHANGED <<genAI, useMongo, connState, feedbackMemory, mongoDocs, now,
                 nextId, tasks, started, last, twin, acked, servedBy,
                 userDashboard>>

NextAdmin ==
  \/ ConnectResolve
  \/ ConnectReject
  \/ \E body \in PathBodies :
       nextId <= MaxAdminPosts /\ tasks = {} /\ PostReceive(body)
  \/ \E t \in tasks, text \in StoreTexts : ProviderResolve(t, text)
  \/ \E t \in tasks, dbOk \in BOOLEAN : SaveReturn(t, dbOk)
  \/ \E dbOk, netOk \in BOOLEAN :
       adminDashboard.polls < MaxPolls /\ FetchData(dbOk, netOk)
  \/ NotificationTimeout

SpecAdmin == Init /\ [][NextAdmin]_vars

TypeOK ==
  /\ genAI \in BOOLEAN
  /\ useMongo \in BOOLEAN
  /\ connState \in {"none", "pending", "connected", "failed"}
  /\ now \in 0..MaxNow
  /\ started \in Nat
  /\ nextId \in Nat \ {0}
  /\ Cardinality(tasks) <= MaxInFlight
  /\ \A t \in tasks : t.pc \in {"calling", "backoff", "saving"} /\ t.i < retries

(***************************************************************************)
(* Vocabulary of the properties.                                           *)
(***************************************************************************)
Range(seq) == {seq[j] : j \in 1..Len(seq)}

\* the store of the backend that sent a response
StoreOf(via) == IF via = "mongo" THEN mongoDocs ELSE feedbackMemory

\* the POST body carries no usable aiAnalysis
NoClientAnalysis(body) == ~("aiAnalysis" \in DOMAIN body /\ Truthy(body.aiAnalysis))

\* no provider call of the request succeeded (none was made when the AI
\* client is disabled)
EveryCallFailed(r) == \A k \in 1..Len(r.outcomes) : r.outcomes[k] # 200

TransientStatus(status) == status \in {429, 503}

(***************************************************************************)
(* C1  Fallback invariant.  A POST without client-supplied analysis whose  *)
(* provider is disabled, or whose every provider call failed, is answered  *)
(* 201 with a record whose aiAnalysis is the fixed fallback object, the    *)
(* same record is in the store, and this is so for every body.  The only   *)
(* other answer is the 400 of a database save that itself failed, which is *)
(* a storage failure and not an AI failure.                                *)
(***************************************************************************)
C1_FallbackInvariant ==
  (last.op = "POST" /\ NoClientAnalysis(last.body) /\ EveryCallFailed(last)) =>
    IF last.status = 201
    THEN /\ last.rec.aiAnalysis =
              [userResponse |-> "Thank you for your feedback! We appreciate you taking the time to share your thoughts.",
               summary |-> "AI analysis unavailable at this moment.",
               recommendedActions |-> <<"Check API Quota/Connection", "Review logs manually">>,
               sentiment |-> "Neutral"]
         /\ last.rec \in Range(StoreOf(last.via))
    ELSE last.status = 400 /\ last.via = "mongo"

\* a request whose three provider calls failed, fatally and transiently, was
\* answered 201 with the fallback
C1_Witness ==
  /\ last.op = "POST"
  /\ genAI
  /\ last.outcomes = <<500, 429, 503>>
  /\ last.status = 201
  /\ last.rec.aiAnalysis = Fallback

(***************************************************************************)
(* C2  Fatal short-circuit.  When the first provider call of a request     *)
(* fails with a status that is neither 429 nor 503, the provider is not    *)
(* called again for that request, no backoff is waited, and the request    *)
(* ends with the fallback.                                                 *)
(***************************************************************************)
FatalFirst(outcomes) ==
  Len(outcomes) >= 1 /\ outcomes[1] # 200 /\ ~TransientStatus(outcomes[1])

C2_FatalShortCircuit ==
  /\ \A t \in tasks :
       FatalFirst(t.outcomes) =>
         Len(t.outcomes) = 1 /\ t.waited = 0 /\ t.pc = "saving"
  /\ (last.op = "POST" /\ FatalFirst(last.outcomes)) =>
       /\ Len(last.outcomes) = 1
       /\ last.waited = 0
       /\ last.status = 201 => last.rec.aiAnalysis = Fallback

(***************************************************************************)
(* C3  Retry bound.  A transient failure (429 or 503) on the first and on  *)
(* the second attempt is retried; when the third attempt then succeeds the *)
(* request used exactly 3 provider calls, waited initialDelay +            *)
(* 2*initialDelay (3000 ms) in total, and went on with the response of the *)
(* third attempt.                                                          *)
(***************************************************************************)
C3_RetryBound ==
  (last.op = "POST" /\ last.outcomes # <<>>) =>
    LET o == last.outcomes
    IN /\ TransientStatus(o[1]) => Len(o) >= 2
       /\ (TransientStatus(o[1]) /\ TransientStatus(o[2])) => Len(o) = 3
       /\ (Len(o) = 3 /\ TransientStatus(o[1]) /\ TransientStatus(o[2]) /\ o[3] = 200) =>
            /\ last.waited = initialDelay + 2 * initialDelay
            /\ last.waited = 3000
            /\ last.text \in ProviderTexts
            /\ last.status = 201 =>
                 last.rec.aiAnalysis = OrFallback(AnalysisFromText(last.text))

C3_Witness ==
  /\ last.op = "POST"
  /\ last.outcomes = <<429, 503, 200>>
  /\ last.waited = 3000
  /\ last.text = "GOOD_JSON"
  /\ last.status = 201
  /\ last.rec.aiAnalysis = GoodAnalysis

(***************************************************************************)
(* C4  Analysis invariant.  Every persisted submission, in either store,   *)
(* has a non-null aiAnalysis with the four fields userResponse, summary,   *)
(* recommendedActions and sentiment, whatever the requests were.           *)
(***************************************************************************)
C4_AnalysisInvariant ==
  \A r \in Range(feedbackMemory) \cup Range(mongoDocs) :
    /\ "aiAnalysis" \in DOMAIN r
    /\ r.aiAnalysis # Null
    /\ AnalysisFields \subseteq DOMAIN r.aiAnalysis

(***************************************************************************)
(* C5  A PATCH on an id that no stored submission has is answered 404 by   *)
(* both backends (unless the database call itself fails).                  *)
(***************************************************************************)
C5_UnknownIdIs404 ==
  (last.op = "PATCH" /\ last.id = UnknownId /\ last.status # 400) =>
    last.status = 404

(***************************************************************************)
(* C6  Store backend transparency.  Given the same requests, the in-memory *)
(* backend and the durable backend answer alike: same status, same record, *)
(* same list in the same order.                                            *)
(***************************************************************************)
C6_BackendTransparency ==
  /\ last.status = twin.status
  /\ last.rec = twin.rec
  /\ last.list = twin.list

(***************************************************************************)
(* C7  The backend is chosen once: all requests of one process lifetime    *)
(* are served by the same backend.                                         *)
(***************************************************************************)
C7_BackendChosenOnce == Cardinality(servedBy) <= 1

(***************************************************************************)
(* C8  End to end.  A successful GET that follows a POST answered 201,     *)
(* with no later submission persisted before it, lists the record of that  *)
(* POST first.                                                             *)
(***************************************************************************)
C8_CreatedIsListedFirst ==
  (last.op = "GET" /\ last.status = 200 /\ acked # <<>>) =>
    /\ last.list # <<>>
    /\ HasId(last.list[1], acked[Len(acked)])

(***************************************************************************)
(* C9  Listing order.  A successful GET returns every submission of the    *)
(* store that serves it, each once, and of any two adjacent entries the    *)
(* earlier has a timestamp >= the later: submissions inserted at T1 < T2 < *)
(* T3 come back as T3, T2, T1.                                             *)
(***************************************************************************)
Count(seq, r) == Cardinality({j \in 1..Len(seq) : seq[j] = r})

C9_ListingOrder ==
  (last.op = "GET" /\ last.status = 200) =>
    /\ \A j \in 1..(Len(last.list) - 1) :
         last.list[j].timestamp >= last.list[j + 1].timestamp
    /\ Len(last.list) = Len(StoreOf(last.via))
    /\ \A r \in Range(StoreOf(last.via)) :
         Count(last.list, r) = Count(StoreOf(last.via), r)

\* three submissions inserted at increasing times are listed newest first by
\* the in-memory backend
C9_Witness ==
  /\ last.op = "GET"
  /\ last.status = 200
  /\ last.via = "memory"
  /\ Len(last.list) = 3
  /\ <<last.list[1].id, last.list[2].id, last.list[3].id>> = <<3, 2, 1>>
  /\ last.list[1].timestamp > last.list[2].timestamp
  /\ last.list[2].timestamp > last.list[3].timestamp

(***************************************************************************)
(* C10  Patch semantics, in-memory backend.  A PATCH on an id that a       *)
(* stored submission has is answered 200 with the record it stores: the    *)
(* prior record with exactly the fields of the body overwritten.  Its      *)
(* other fields, every other record and the number of records stay as      *)
(* they were.                                                              *)
(***************************************************************************)
C10_PatchSemantics ==
  [][(started' = started + 1 /\ last'.op = "PATCH" /\ last'.via = "memory"
        /\ \E j \in 1..Len(feedbackMemory) : HasId(feedbackMemory[j], last'.id)) =>
       /\ last'.status = 200
       /\ Len(feedbackMemory') = Len(feedbackMemory)
       /\ \E j \in 1..Len(feedbackMemory) :
            LET old == feedbackMemory[j]
                new == feedbackMemory'[j]
            IN /\ HasId(old, last'.id)
               /\ new = last'.rec
               /\ DOMAIN new = (DOMAIN old) \cup (DOMAIN last'.body)
               /\ \A f \in DOMAIN last'.body : new[f] = last'.body[f]
               /\ \A f \in (DOMAIN old) \ (DOMAIN last'.body) : new[f] = old[f]
               /\ \A k \in 1..Len(feedbackMemory) :
                    k # j => feedbackMemory'[k] = feedbackMemory[k]]_vars

\* the helpful vote was set on one of two stored submissions
C10_Witness ==
  /\ last.op = "PATCH"
  /\ last.via = "memory"
  /\ last.status = 200
  /\ last.body = [helpfulResponse |-> "true"]
  /\ last.rec.helpfulResponse = "true"
  /\ last.rec.aiAnalysis = Fallback
  /\ Len(feedbackMemory) = 2
  /\ last.rec \in Range(feedbackMemory)

(***************************************************************************)
(* C11  A PATCH on an id that no submission of the serving backend has     *)
(* leaves both stores as they were, every record and their order, and      *)
(* starts nothing: the handler answers in the same step, no handler is     *)
(* left suspended and no other request is begun.                           *)
(***************************************************************************)
C11_UnknownIdNoSideEffect ==
  [][(started' = started + 1 /\ last'.req = started' /\ last'.op = "PATCH"
        /\ \A r \in Range(StoreOf(last'.via)) : ~HasId(r, last'.id)) =>
       /\ feedbackMemory' = feedbackMemory
       /\ mongoDocs' = mongoDocs
       /\ tasks' = tasks
       /\ nextId' = nextId
       /\ acked' = acked]_vars

\* a PATCH on the unknown id was answered by the in-memory backend while it
\* held two submissions
C11_Witness ==
  /\ last.op = "PATCH"
  /\ last.via = "memory"
  /\ last.id = UnknownId
  /\ last.status = 404
  /\ Len(feedbackMemory) = 2
  /\ \A r \in Range(feedbackMemory) : ~HasId(r, UnknownId)

(***************************************************************************)
(* C12  Id uniqueness.  In every reachable state no two submissions of a   *)
(* store have the same id, whatever submit and patch requests were made.   *)
(***************************************************************************)
C12_IdUniqueness ==
  \A via \in {"memory", "mongo"} :
    \A j, k \in 1..Len(StoreOf(via)) :
      (j # k /\ "id" \in DOMAIN StoreOf(via)[j]) =>
        ~HasId(StoreOf(via)[k], StoreOf(via)[j].id)

(***************************************************************************)
(* C14  Immutability.  A stored submission never changes its id, rating,   *)
(* reviewText, timestamp or aiAnalysis: whatever a step does, every        *)
(* record of a store is still in that store afterwards with these fields   *)
(* present or absent as before and with the same values; only              *)
(* helpfulResponse may differ.                                             *)
(***************************************************************************)
ImmutablePart(r) == [f \in (DOMAIN r) \ {"helpfulResponse"} |-> r[f]]

C14_ImmutableButHelpful ==
  [][/\ \A r \in Range(feedbackMemory) : \E q \in Range(feedbackMemory') :
          ImmutablePart(q) = ImmutablePart(r)
     /\ \A r \in Range(mongoDocs) : \E q \in Range(mongoDocs') :
          ImmutablePart(q) = ImmutablePart(r)]_vars

(***************************************************************************)
(* C13  Timestamps and arrival order.  As stated: of two submissions the   *)
(* one that arrived first has the timestamp that is not larger, however    *)
(* their provider calls and retries interleave.  It is stated on two       *)
(* handlers that answer 201 one right after the other: when the second     *)
(* to answer had arrived before the first to answer, its record has the    *)
(* timestamp that is not larger.                                           *)
(***************************************************************************)
C13_TimestampArrivalOrder ==
  [][(/\ last.op = "POST" /\ last.status = 201
      /\ last'.op = "POST" /\ last'.status = 201
      /\ last'.req < last.req) =>
       last'.rec.timestamp <= last.rec.timestamp]_vars

\* every submission a handler has built: the stored ones and those being saved
Built ==
  Range(feedbackMemory) \cup Range(mongoDocs) \cup
    {t.doc : t \in {u \in tasks : u.pc = "saving"}}

(***************************************************************************)
(* C13, amended.  The timestamp follows the order in which the handlers    *)
(* build their records (Date.now() is read after the enrichment, together  *)
(* with the fresh id): of two submissions the one built first has the      *)
(* timestamp that is not larger.                                           *)
(***************************************************************************)
C13_TimestampBuildOrder ==
  \A r, s \in Built : r.id < s.id => r.timestamp <= s.timestamp

\* the first request to arrive was the second to be built, after a backoff,
\* and has the larger timestamp
C13_Witness ==
  /\ last.op = "POST"
  /\ last.status = 201
  /\ last.req = 1
  /\ last.rec.id = 2
  /\ last.waited > 0
  /\ \E r \in Built : r.id = 1 /\ r.timestamp < last.rec.timestamp

(***************************************************************************)
(* C15  Validation.  A POST whose body lacks rating or reviewText is       *)
(* answered 400; no handler with such a body is ever waiting on the        *)
(* provider, its backoff or its save, no provider call was made for it     *)
(* and no store holds a record of it.                                      *)
(***************************************************************************)
Complete(body) == {"rating", "reviewText"} \subseteq DOMAIN body

C15_MissingFieldRejected ==
  /\ \A t \in tasks : Complete(t.body)
  /\ (last.op = "POST" /\ ~Complete(last.body)) =>
       /\ last.status = 400
       /\ last.outcomes = <<>>
       /\ \A r \in Range(feedbackMemory) \cup Range(mongoDocs) : Complete(r)

(***************************************************************************)
(* C16  Every submit completes.  When every pending provider call          *)
(* settles, every backoff timer fires and every save completes, a POST     *)
(* handler that is suspended is eventually answered 201 with exactly one   *)
(* record of it in the store that served it; every POST that is answered   *)
(* has exactly that one record; and on the way a handler makes at most     *)
(* three provider calls and starts a backoff wait only after the first or  *)
(* the second of them.                                                     *)
(***************************************************************************)
StoredOnce(resp) ==
  /\ Cardinality({j \in 1..Len(StoreOf(resp.via)) :
                    HasId(StoreOf(resp.via)[j], resp.rec.id)}) = 1
  /\ \A r \in Range(feedbackMemory) \cup Range(mongoDocs) :
       HasId(r, resp.rec.id) => r \in Range(StoreOf(resp.via))

Answered(req) ==
  /\ last.op = "POST"
  /\ last.req = req
  /\ last.status = 201
  /\ StoredOnce(last)

C16_SubmitCompletes ==
  /\ \A req \in 1..MaxPosts : (\E t \in tasks : t.req = req) ~> Answered(req)
  /\ [](last.op = "POST" => Answered(last.req))
  /\ [](\A t \in tasks :
          /\ Len(t.outcomes) + (IF t.pc = "calling" THEN 1 ELSE 0) <= 3
          /\ t.pc = "backoff" => Len(t.outcomes) <= 2)
  /\ [](last.op = "POST" => Len(last.outcomes) <= 3)

\* a submit was answered after three provider calls and two backoff waits,
\* its record saved in the database
C16_Witness ==
  /\ Answered(1)
  /\ last.via = "mongo"
  /\ Len(last.outcomes) = 3
  /\ last.waited = 3000
  /\ tasks = {}

(***************************************************************************)
(* C17  Attempt cap.  One run of generateContentWithRetry calls the        *)
(* provider at most three times, the call in progress included, and makes  *)
(* no call after one that succeeded: a success is the last outcome of the  *)
(* run and the handler is past the provider by then.                       *)
(***************************************************************************)
StopsAtSuccess(outcomes) ==
  \A k \in 1..Len(outcomes) : outcomes[k] = 200 => k = Len(outcomes)

C17_AttemptCap ==
  /\ \A t \in tasks :
       /\ Len(t.outcomes) + (IF t.pc = "calling" THEN 1 ELSE 0) <= 3
       /\ StopsAtSuccess(t.outcomes)
       /\ 200 \in Range(t.outcomes) => t.pc = "saving"
  /\ last.op = "POST" =>
       /\ Len(last.outcomes) <= 3
       /\ StopsAtSuccess(last.outcomes)

\* the third call succeeded after two failed ones and the run ended there
C17_Witness ==
  /\ last.op = "POST"
  /\ Len(last.outcomes) = 3
  /\ last.outcomes[1] = 429
  /\ last.outcomes[2] = 503
  /\ last.outcomes[3] = 200
  /\ last.rec.aiAnalysis = GoodAnalysis

(***************************************************************************)
(* C18  Backoff schedule.  When a provider call fails with status 429 or   *)
(* 503 on the first attempt the handler waits 1000 ms before the next,     *)
(* on the second attempt 2000 ms; when the call of the third attempt       *)
(* fails the handler waits nothing more, the error propagates and the      *)
(* fallback is used.  The waits of one run never add up to more than       *)
(* 3000 ms.                                                                *)
(***************************************************************************)
LastOutcome(r) == r.outcomes[Len(r.outcomes)]

C18_BackoffSchedule ==
  /\ [](\A t \in tasks : t.waited <= 3000)
  /\ [](last.op = "POST" => last.waited <= 3000)
  /\ [][\A t \in tasks : t.pc = "calling" =>
          /\ \A u \in tasks' :
               (/\ u.req = t.req
                /\ Len(u.outcomes) = Len(t.outcomes) + 1
                /\ TransientStatus(LastOutcome(u))) =>
                 IF t.i < 2
                 THEN /\ u.pc = "backoff"
                      /\ u.waited = t.waited + (IF t.i = 0 THEN 1000 ELSE 2000)
                 ELSE /\ u.pc = "saving"
                      /\ u.waited = t.waited
                      /\ u.doc.aiAnalysis = Fallback
          /\ (/\ last' # last
              /\ last'.op = "POST"
              /\ last'.req = t.req
              /\ LastOutcome(last') # 200) =>
               /\ t.i = 2
               /\ last'.waited = t.waited
               /\ last'.rec.aiAnalysis = Fallback]_vars

\* two waits, 1000 ms and 2000 ms, then the third call failed and the
\* fallback was stored without a further wait
C18_Witness ==
  /\ last.op = "POST"
  /\ last.outcomes = <<429, 503, 429>>
  /\ last.waited = 3000
  /\ last.rec.aiAnalysis = Fallback

(***************************************************************************)
(* C19  The in-memory fallback is permanent.  When no connection string    *)
(* is configured or the startup connection has failed, the flag is false   *)
(* and stays false, no new connection is attempted, and every request      *)
(* the process has served and serves from then on goes to the in-memory    *)
(* backend.                                                                *)
(***************************************************************************)
NoDatabase == connState \in {"none", "failed"}

C19_FallbackPermanent ==
  /\ [](NoDatabase =>
          /\ ~useMongo
          /\ servedBy \subseteq {"memory"}
          /\ last.via \in {"none", "memory"}
          /\ mongoDocs = <<>>)
  /\ [][NoDatabase => (connState' = connState /\ ~useMongo')]_vars

\* after the connection failed a submission was stored and then listed by
\* the in-memory backend
C19_Witness ==
  /\ connState = "failed"
  /\ last.op = "GET"
  /\ last.via = "memory"
  /\ Len(last.list) = 1
  /\ acked = <<1>>

(***************************************************************************)
(* C20  A malformed provider payload counts as a failure.  When the text   *)
(* the provider returned cannot be parsed, or parses to a value that is    *)
(* not an object with exactly the four fields of an analysis and a         *)
(* sentiment of Positive, Neutral or Negative, the record the POST is      *)
(* answered with carries the fallback analysis.                            *)
(***************************************************************************)
WellFormed(v) ==
  /\ v # Null
  /\ DOMAIN v = AnalysisFields
  /\ v.sentiment \in {"Positive", "Neutral", "Negative"}

Malformed(text) == ParseThrows(text) \/ ~WellFormed(JSONparse(text))

C20_MalformedIsFailure ==
  (/\ last.op = "POST"
   /\ last.status = 201
   /\ last.text # "none"
   /\ Malformed(last.text)) =>
    last.rec.aiAnalysis = Fallback

(***************************************************************************)
(* C21  AI disabled.  When no API key is configured no handler ever waits  *)
(* on the provider or on a backoff, and every POST is answered with no     *)
(* provider call and no wait behind it; when its body brought no analysis  *)
(* the record carries the fallback.                                        *)
(***************************************************************************)
C21_DisabledWithoutKey ==
  ~genAI =>
    /\ \A t \in tasks :
         t.pc = "saving" /\ t.outcomes = <<>> /\ t.waited = 0
    /\ last.op = "POST" =>
         /\ last.outcomes = <<>>
         /\ last.waited = 0
         /\ last.text = "none"
         /\ (last.status = 201 /\ NoClientAnalysis(last.body)) =>
              last.rec.aiAnalysis = Fallback

\* without a key a review was stored with the fallback, once in memory and
\* no call was made
C21_Witness ==
  /\ ~genAI
  /\ last.op = "POST"
  /\ last.status = 201
  /\ NoClientAnalysis(last.body)
  /\ last.rec.aiAnalysis = Fallback
  /\ last.outcomes = <<>>
  /\ last.rec \in Range(StoreOf(last.via))

(***************************************************************************)
(* C22  Storage failures are surfaced.  The save of a POST handler is      *)
(* settled in one step: the handler leaves, answered either 201 with its   *)
(* document appended to the database or 400 with both stores as they       *)
(* were and the submission dropped; no other handler comes into            *)
(* being.  A GET that is not answered 200 is answered 500 with no list,    *)
(* both stores as they were and no handler left behind.                    *)
(***************************************************************************)
C22_StorageFailureSurfaced ==
  [][/\ \A t \in tasks : (t.pc = "saving" /\ t \notin tasks') =>
          /\ tasks' = tasks \ {t}
          /\ last'.op = "POST"
          /\ last'.req = t.req
          /\ last'.via = "mongo"
          /\ feedbackMemory' = feedbackMemory
          /\ \/ /\ last'.status = 201
                /\ mongoDocs' = Append(mongoDocs, last'.rec)
                /\ HasId(last'.rec, t.doc.id)
             \/ /\ last'.status = 400
                /\ last'.rec = NoFields
                /\ mongoDocs' = mongoDocs
                /\ acked' = acked
     /\ (/\ started' = started + 1
         /\ last'.req = started'
         /\ last'.op = "GET"
         /\ last'.status # 200) =>
          /\ last'.status = 500
          /\ last'.via = "mongo"
          /\ last'.list = <<>>
          /\ feedbackMemory' = feedbackMemory
          /\ mongoDocs' = mongoDocs
          /\ tasks' = tasks]_vars

\* a save was rejected, the submission is in neither store and no handler
\* is left; the listing that followed failed too
C22_Witness ==
  /\ last.op = "GET"
  /\ last.status = 500
  /\ started = 2
  /\ nextId = 2
  /\ acked = <<>>
  /\ tasks = {}
  /\ feedbackMemory = <<>>
  /\ mongoDocs = <<>>

(***************************************************************************)
(* C23  Helpful vote exactly once.  Of the update requests the user        *)
(* dashboard sends for the review it has submitted, whatever the clicks    *)
(* on Yes and No and whenever they are made, at most one is answered with  *)
(* a response that is ok.                                                  *)
(***************************************************************************)
SucceededVotes ==
  {k \in 1..Len(userDashboard.votes) :
     userDashboard.votes[k].pc # "sent" /\ userDashboard.votes[k].ok}

C23_HelpfulVoteOnce == Cardinality(SucceededVotes) <= 1

(***************************************************************************)
(* C24  Server-assigned fields.  Every record a POST handler builds has    *)
(* the next fresh id, the time of the server's clock at that moment and    *)
(* helpfulResponse null, whatever id, timestamp or helpfulResponse the     *)
(* request body carries; its rating and reviewText are those of the body,  *)
(* and absent when the body has none.                                      *)
(***************************************************************************)
Verbatim(rec, body) ==
  \A f \in {"rating", "reviewText"} :
    IF f \in DOMAIN body THEN f \in DOMAIN rec /\ rec[f] = body[f]
    ELSE f \notin DOMAIN rec

Suspended(req) == \E t \in tasks : t.req = req

\* what one step does to the requests and the responses
OneResponseStep ==
  /\ started' # started =>
       /\ started' = started + 1
       /\ \/ (last' # last /\ last'.req = started' /\ tasks' = tasks)
          \/ (/\ last' = last
              /\ tasks' # tasks
              /\ \E t \in tasks' : tasks' = tasks \cup {t} /\ t.req = started')
  /\ last' # last =>
       /\ last'.op \in {"GET", "POST", "PATCH"}
       /\ last'.status \in {200, 201, 400, 404, 500}
       /\ \/ (started' = started + 1 /\ last'.req = started')
          \/ (\E t \in tasks : t.req = last'.req /\ tasks' = tasks \ {t})
  /\ \A t \in tasks :
       (\A u \in tasks' : u.req # t.req) => (last' # last /\ last'.req = t.req)

C25_ExactlyOneResponse ==
  /\ [](\A t, u \in tasks : (t.req = u.req => t = u) /\ t.req \in 1..started)
  /\ [](last.op # "none" => ~Suspended(last.req))
  /\ [][OneResponseStep]_vars
  /\ \A req \in 1..MaxPathReqs : Suspended(req) ~> ~Suspended(req)

\* three requests, three responses: the submission was answered by its
\* handler after the provider had failed three times, the patch of an
\* unknown id and the listing at once
C25_Witness ==
  /\ started = 3
  /\ tasks = {}
  /\ last.op = "GET"
  /\ last.req = 3
  /\ Len(acked) = 1
  /\ \E r \in Range(last.list) : r.aiAnalysis = Fallback

(***************************************************************************)
(* C26  No suspension between the timestamp and the push.  On the          *)
(* in-memory backend a handler that builds its record appends it to the    *)
(* array and answers in the same step, so while submissions are the only   *)
(* requests the array holds the records in the order their timestamps      *)
(* were assigned, with timestamps that never decrease, in the order the    *)
(* enrichments finished whatever the order of arrival.                     *)
(***************************************************************************)
PushedWhenBuilt ==
  (nextId' # nextId /\ ~useMongo) =>
    /\ Len(feedbackMemory') = Len(feedbackMemory) + 1
    /\ \A j \in 1..Len(feedbackMemory) : feedbackMemory'[j] = feedbackMemory[j]
    /\ feedbackMemory'[Len(feedbackMemory')].id = nextId
    /\ feedbackMemory'[Len(feedbackMemory')].timestamp = now'
    /\ last'.rec = feedbackMemory'[Len(feedbackMemory')]
    /\ \A t \in tasks' : t.pc # "saving" \/ t \in tasks

C26_PushedInTimestampOrder ==
  /\ [](\A j, k \in 1..Len(feedbackMemory) :
          j < k => /\ feedbackMemory[j].timestamp <= feedbackMemory[k].timestamp
                   /\ feedbackMemory[j].id < feedbackMemory[k].id)
  /\ [][PushedWhenBuilt]_vars

\* the request that arrived first finished its enrichment second: its
\* record is the second of the array and has the larger timestamp
C26_Witness ==
  /\ Len(feedbackMemory) = 2
  /\ last.op = "POST"
  /\ last.req = 1
  /\ last.rec = feedbackMemory[2]
  /\ Len(last.outcomes) >= 1
  /\ feedbackMemory[1].timestamp < feedbackMemory[2].timestamp

(***************************************************************************)
(* C27  No acknowledged submission is lost from view.  A GET answered 200  *)
(* lists every submission that was answered 201 before it, and a PATCH on  *)
(* the id of such a submission is answered 200 with its record, whenever   *)
(* the startup connection resolves.                                        *)
(***************************************************************************)
C27_AckedStaysVisible ==
  /\ (last.op = "GET" /\ last.status = 200) =>
       \A id \in Range(acked) : \E r \in Range(last.list) : HasId(r, id)
  /\ (last.op = "PATCH" /\ last.id \in Range(acked) /\ last.status # 400) =>
       (last.status = 200 /\ last.rec # Null /\ HasId(last.rec, last.id))

(***************************************************************************)
(* C28  GET is read-only on the in-memory backend: a listing leaves the    *)
(* array as it was, the same records at the same positions.                *)
(***************************************************************************)
C28_ListIsReadOnly ==
  [][(/\ started' = started + 1
      /\ last'.req = started'
      /\ last'.op = "GET"
      /\ last'.via = "memory") =>
       feedbackMemory' = feedbackMemory]_vars

(***************************************************************************)
(* C29  A client-supplied analysis bypasses the enrichment.  A POST whose  *)
(* body carries an analysis never waits on the provider or a backoff and   *)
(* is stored with exactly that analysis, no call made; a POST whose body   *)
(* carries none is stored with the value parsed from the provider's text   *)
(* or with the fallback, nothing else.                                     *)
(***************************************************************************)
AnalysisAllowed(r, aiAnalysis) ==
  IF NoClientAnalysis(r.body)
  THEN \/ aiAnalysis = Fallback
       \/ /\ r.text # "none"
          /\ ~ParseThrows(r.text)
          /\ aiAnalysis = JSONparse(r.text)
  ELSE /\ aiAnalysis = r.body.aiAnalysis
       /\ r.outcomes = <<>>
       /\ r.waited = 0
       /\ r.text = "none"

C30_NotifyOnlyOnIncrease ==
  adminDashboard.raised =>
    /\ adminDashboard.polls > 1
    /\ adminDashboard.stored > adminDashboard.storedBefore
====
